---- MODULE Spec2Model ----
(***************************************************************************)
(* Chat-message API of RoamsPruebaTecnica: five FastAPI handlers           *)
(* (src/main.py) over two tables, users and messages (src/models.py),      *)
(* reached through the helpers of src/tools.py.                            *)
(*                                                                         *)
(* One step of the model is one handler segment: a segment ends at each    *)
(* db.commit(), and before it where the handler has read the rows its      *)
(* write depends on (create_user's pre-check, create_message's user lookup *)
(* and the model invocation after it).  delete_messages reads the rows it  *)
(* deletes and deletes them by primary key in one segment: keys are never  *)
(* reused, so a commit between its read and its delete is as if it came    *)
(* after.  Each worker runs one request at a time.                         *)
(***************************************************************************)
EXTENDS Integers, Sequences, FiniteSets, TLC

\* ------------------------------------------------------------------ bounds
MaxUsers == 2        \* create_user inserts attempted (tokens drawn)
MaxMsgs == 2         \* create_message inserts attempted (message ids drawn)

Workers == {"w1", "w2"}
Usernames == {"alice", "bob"}
Contents == {"hi", ""}
Tokens == 1..MaxUsers

\* Python's None for a missing row, and SQL NULL for a nullable column.
NoUser == [id |-> 0, username |-> "", token |-> 0]
NULL == 0

VARIABLES
  users,          \* committed rows of table users: [id, username, token]
  messages,       \* committed rows of table messages
  nextUserId,     \* next primary key of users (keys grow, none is reused)
  nextMsgId,      \* next primary key of messages (keys grow, none is reused)
  nextToken,      \* number of the next uuid4 draw
  pc,             \* per worker: the segment its request runs next
  arg,            \* per worker: the request's username / token
  db_user,        \* per worker: the handler's local db_user
  chat_history,   \* per worker: ids of the Message objects the session loaded
  db_message,     \* per worker: content and response_text of the pending row
  response,       \* the HTTP response the last step sent, NoResponse if none
  posted          \* history: per user id, ids created since the last clearing

vars == <<users, messages, nextUserId, nextMsgId, nextToken,
          pc, arg, db_user, chat_history, db_message, response, posted>>

store == <<users, messages>>
locals == <<pc, arg, db_user, chat_history, db_message>>
counters == <<nextUserId, nextMsgId, nextToken>>

NoMessage == [content |-> "", generated_response |-> ""]

\* ------------------------------------------------------------------ store
RECURSIVE SortById(_)
\* Rows in primary-key order: the order of an unordered scan of the table.
SortById(S) ==
  IF S = {} THEN <<>>
  ELSE LET m == CHOOSE x \in S : \A y \in S : x.id <= y.id
       IN <<m>> \o SortById(S \ {m})

\* Query.first(): the first row of the scan, or None.
First(S) == IF S = {} THEN NoUser ELSE SortById(S)[1]

\* Fault variant: the users table without the unique index.
UsernameIndexRejects_none(U, username) == FALSE

\* Column(String, unique=True): the unique index on users.username rejects
\* an INSERT whose username a committed row already holds.
UsernameIndexRejects(U, username) == \E u \in U : u.username = username

\* ForeignKey("users.id"): a store that enforces the constraint rejects an
\* INSERT of a message whose user_id names no user row; whether the store
\* enforces it is the store's configuration, open at every insert.
ForeignKeyRejects(U, user_id, enforced) ==
  enforced /\ user_id # NULL /\ ~ \E u \in U : u.id = user_id

\* ------------------------------------------------------------------ tools.py
\* Fault variant: a generator that returns one fixed token.
generate_token_const(n) == 1

\* str(uuid4()): every draw is a value no earlier draw returned; the n-th
\* draw is written n.
generate_token(n) == n

\* Fault variant: the lookup without its filter on the token.
get_user_by_token_any(U, token) == First(U)

\* The first user row with the token, or None.
get_user_by_token(U, token) == First({u \in U : u.token = token})

\* Fault variant: the pre-check with the comparison inverted.
get_user_by_username_other(U, username) == First({u \in U : u.username # username})

\* create_user line 94: the first user row with the username, or None.
get_user_by_username(U, username) == First({u \in U : u.username = username})

\* Fault variants: the query without its filter on user_id; the query ended
\* by first() instead of all().
QueryMessages_all(M, user) == SortById(M)

QueryMessages_first(M, user) ==
  LET rows == SortById({m \in M : m.user_id = user.id})
  IN IF rows = <<>> THEN <<>> ELSE <<rows[1]>>

\* The rows get_chat_history returns for a user that exists.
QueryMessages(M, user) == SortById({m \in M : m.user_id = user.id})

\* The model's continuation of the prompt built from the content.
generate_response(content) == <<"IA response", content>>

\* check_message is imported by main.py (line 25) and defined in none of the
\* source files; by the design document it is a content-validity check that
\* answers 400.  Taken here to reject the empty string.
check_message(content) == content # ""

Ids(S) == {m.id : m \in S}
Range(s) == {s[i] : i \in 1..Len(s)}

\* ------------------------------------------------------------------ responses
NoResponse == [op |-> "", arg |-> 0, status |-> 0, detail |-> "", body |-> <<>>]

\* The response a segment sends; a segment that sends none leaves NoResponse.
Respond(op, a, status, detail, body) ==
  response' = [op |-> op, arg |-> a, status |-> status, detail |-> detail,
               body |-> body]

Silent == response' = NoResponse

Finish(w) ==
  /\ pc' = [pc EXCEPT ![w] = "idle"]
  /\ arg' = [arg EXCEPT ![w] = 0]
  /\ db_user' = [db_user EXCEPT ![w] = NoUser]
  /\ chat_history' = [chat_history EXCEPT ![w] = {}]
  /\ db_message' = [db_message EXCEPT ![w] = NoMessage]

InFlight(p) == Cardinality({w \in Workers : pc[w] = p})

Init ==
  /\ users = {}
  /\ messages = {}
  /\ nextUserId = 1
  /\ nextMsgId = 1
  /\ nextToken = 1
  /\ pc = [w \in Workers |-> "idle"]
  /\ arg = [w \in Workers |-> 0]
  /\ db_user = [w \in Workers |-> NoUser]
  /\ chat_history = [w \in Workers |-> {}]
  /\ db_message = [w \in Workers |-> NoMessage]
  /\ response = NoResponse
  /\ posted = [i \in 1..MaxUsers |-> <<>>]

\* ------------------------------------------------------------------ main.py
\* db.add(new_user): the row create_user inserts.
NewUser(id, username, token) == [id |-> id, username |-> username, token |-> token]

\* MessageModel(content=..., generated_response=..., user_id=db_user.id)
NewMessage(id, msg, user) ==
  [id |-> id, content |-> msg.content,
   generated_response |-> msg.generated_response, user_id |-> user.id]

\* for msg in chat_history: db.delete(msg) -- DELETE ... WHERE id = ? per object.
DeleteRows(M, ids) == {m \in M : m.id \notin ids}

\* db.delete(db_user) with relationship User.messages and no delete cascade:
\* the flush loads the user's messages and sets their user_id to NULL, then
\* deletes the user row.
Nullify(M, user) ==
  {IF m.user_id = user.id THEN [m EXCEPT !.user_id = NULL] ELSE m : m \in M}

\* Fault variant: delete_user without db.delete(db_user).
DeleteUserRow_keep(U, user) == U

DeleteUserRow(U, user) == U \ {user}

\* get_chat_history: the user lookup, then the user's rows.
get_chat_history(U, M, token) ==
  LET u == get_user_by_token(U, token)
  IN [user |-> u, messages |-> IF u = NoUser THEN <<>> ELSE QueryMessages(M, u)]

\* Fault variant: delete_messages that commits without deleting.
ClearHistory_none(U, M, token) == M

\* delete_messages, lines 248-251: every Message object of the chat history is
\* deleted and the session commits.
ClearHistory(U, M, token) ==
  DeleteRows(M, Ids(Range(get_chat_history(U, M, token).messages)))

\* create_user, lines 93-97: the uniqueness pre-check.
create_user_check(w, username) ==
  /\ pc[w] = "idle"
  /\ IF get_user_by_username(users, username) # NoUser
     THEN /\ Respond("create_user", username, 400, "Username already registered", <<>>)
          /\ UNCHANGED locals
     ELSE /\ nextToken + InFlight("cu_commit") <= MaxUsers
          /\ pc' = [pc EXCEPT ![w] = "cu_commit"]
          /\ arg' = [arg EXCEPT ![w] = username]
          /\ Silent
          /\ UNCHANGED <<db_user, chat_history, db_message>>
  /\ UNCHANGED <<store, counters, posted>>

\* create_user, lines 99-106: the token, the insert and the commit.
create_user_commit(w) ==
  /\ pc[w] = "cu_commit"
  /\ nextToken' = nextToken + 1
  /\ LET new_user == NewUser(nextUserId, arg[w], generate_token(nextToken))
     IN IF UsernameIndexRejects(users, arg[w])
        THEN /\ Respond("create_user", arg[w], 500, "IntegrityError", <<>>)
             /\ UNCHANGED <<users, nextUserId>>
        ELSE /\ users' = users \cup {new_user}
             /\ nextUserId' = nextUserId + 1
             /\ Respond("create_user", arg[w], 200, "", <<new_user>>)
  /\ Finish(w)
  /\ UNCHANGED <<messages, nextMsgId, posted>>

\* delete_user, lines 128-135: the user lookup, then delete_messages (lines
\* 246-251) called as a function, which loads the user's messages, deletes
\* them and commits.
delete_user_messages(w, token) ==
  /\ pc[w] = "idle"
  /\ LET user == get_user_by_token(users, token)
     IN IF user = NoUser
        THEN /\ Respond("delete_user", token, 400, "User not found", <<>>)
             /\ UNCHANGED <<locals, messages, posted>>
        ELSE /\ messages' = ClearHistory(users, messages, token)
             /\ posted' = [posted EXCEPT ![user.id] = <<>>]
             /\ pc' = [pc EXCEPT ![w] = "du_user"]
             /\ arg' = [arg EXCEPT ![w] = token]
             /\ db_user' = [db_user EXCEPT ![w] = user]
             /\ chat_history' = [chat_history EXCEPT ![w] =
                    Ids(Range(get_chat_history(users, messages, token).messages))]
             /\ Silent
             /\ UNCHANGED db_message
  /\ UNCHANGED <<users, counters>>

\* delete_user, lines 136-140: the delete of the user row and the second commit.
delete_user_commit(w) ==
  /\ pc[w] = "du_user"
  /\ IF db_user[w] \notin users
     THEN /\ Respond("delete_user", arg[w], 500, "ObjectDeletedError", <<>>)
          /\ UNCHANGED store
     ELSE /\ messages' = Nullify(messages, db_user[w])
          /\ users' = DeleteUserRow(users, db_user[w])
          /\ Respond("delete_user", arg[w], 200, "User deleted successfully", <<>>)
  /\ Finish(w)
  /\ UNCHANGED <<counters, posted>>

\* create_message, lines 172-184: the content check, the user lookup and the
\* model invocation.
create_message_lookup(w, token, content) ==
  /\ pc[w] = "idle"
  /\ IF ~check_message(content)
     THEN /\ Respond("create_message", token, 400, "Invalid message", <<>>)
          /\ UNCHANGED locals
     ELSE IF get_user_by_token(users, token) = NoUser
     THEN /\ Respond("create_message", token, 400, "Invalid token", <<>>)
          /\ UNCHANGED locals
     ELSE /\ nextMsgId + InFlight("cm_insert") <= MaxMsgs
          /\ pc' = [pc EXCEPT ![w] = "cm_insert"]
          /\ arg' = [arg EXCEPT ![w] = token]
          /\ db_user' = [db_user EXCEPT ![w] = get_user_by_token(users, token)]
          /\ db_message' = [db_message EXCEPT ![w] =
                 [content |-> content,
                  generated_response |-> generate_response(content)]]
          /\ Silent
          /\ UNCHANGED chat_history
  /\ UNCHANGED <<store, counters, posted>>

\* create_message, lines 186-197: the insert and the commit.
create_message_insert(w) ==
  /\ pc[w] = "cm_insert"
  /\ LET row == NewMessage(nextMsgId, db_message[w], db_user[w])
     IN \E enforced \in BOOLEAN :
        IF ForeignKeyRejects(users, row.user_id, enforced)
        THEN /\ Respond("create_message", arg[w], 500, "IntegrityError", <<>>)
             /\ UNCHANGED <<messages, nextMsgId, posted>>
        ELSE /\ messages' = messages \cup {row}
             /\ nextMsgId' = nextMsgId + 1
             /\ posted' = [posted EXCEPT ![db_user[w].id] = Append(@, row.id)]
             /\ Respond("create_message", arg[w], 200, "", <<row>>)
  /\ Finish(w)
  /\ UNCHANGED <<users, nextUserId, nextToken>>

\* get_messages, lines 223-224.
get_messages(w, token) ==
  /\ pc[w] = "idle"
  /\ LET h == get_chat_history(users, messages, token)
     IN IF h.user = NoUser
        THEN Respond("get_messages", token, 400, "Invalid token", <<>>)
        ELSE Respond("get_messages", token, 200, "", h.messages)
  /\ UNCHANGED <<store, counters, locals, posted>>

\* delete_messages, lines 246-254.
delete_messages(w, token) ==
  /\ pc[w] = "idle"
  /\ LET h == get_chat_history(users, messages, token)
     IN IF h.user = NoUser
        THEN /\ Respond("delete_messages", token, 400, "Invalid token", <<>>)
             /\ UNCHANGED <<messages, posted>>
        ELSE /\ messages' = ClearHistory(users, messages, token)
             /\ posted' = [posted EXCEPT ![h.user.id] = <<>>]
             /\ Respond("delete_messages", token, 200,
                        "Chat history deleted successfully", <<>>)
  /\ UNCHANGED <<users, counters, locals>>

\* A request arrives at an idle worker and runs its first segment.
Call(w) ==
  \/ \E username \in Usernames : create_user_check(w, username)
  \/ \E token \in Tokens : delete_user_messages(w, token)
  \/ \E token \in Tokens, content \in Contents : create_message_lookup(w, token, content)
  \/ \E token \in Tokens : get_messages(w, token)
  \/ \E token \in Tokens : delete_messages(w, token)

\* A request in flight runs its next segment.
Step(w) ==
  \/ create_user_commit(w)
  \/ delete_user_commit(w)
  \/ create_message_insert(w)

AllIdle == \A w \in Workers : pc[w] = "idle"

\* Requests served concurrently by the workers.
Next == \E w \in Workers : Call(w) \/ Step(w)

Spec == Init /\ [][Next]_vars

\* Requests served one at a time: a request starts only when none is in flight.
SeqNext == \E w \in Workers : (AllIdle /\ Call(w)) \/ Step(w)

SeqSpec == Init /\ [][SeqNext]_vars
\* ------------------------------------------------------------------ properties
\* Every step either sends a response (response' # NoResponse) or sends none.
\* A request's first segment is taken by an idle worker; it either answers at
\* once (pc unchanged) or leaves the worker in flight.
Answered(op) == pc' = pc /\ response'.op = op

UsernameHeld(U, username) == \E u \in U : u.username = username
TokenHeld(U, token) == \E u \in U : u.token = token
MessagesOf(M, user_id) == {m \in M : m.user_id = user_id}
BodyIds(r) == [i \in 1..Len(r.body) |-> r.body[i].id]

\* C1: create_user with a username that a user row holds never passes the
\* pre-check: it answers 400 "Username already registered" and leaves both
\* tables as they were, whatever messages the holder has.
C1_DuplicateUsernameRejected ==
  [][ /\ \A w \in Workers :
           (pc[w] = "idle" /\ pc'[w] = "cu_commit") => ~UsernameHeld(users, arg'[w])
      /\ (Answered("create_user") /\ UsernameHeld(users, response'.arg)) =>
           /\ response'.status = 400
           /\ response'.detail = "Username already registered"
           /\ UNCHANGED store
    ]_vars

C1_Witness ==
  /\ response.op = "create_user"
  /\ response.status = 400
  /\ \E u \in users : u.username = response.arg /\ MessagesOf(messages, u.id) # {}

\* C5: delete_user, create_message, get_messages and delete_messages called
\* with a token no user row holds answer 400 at once, without invoking the
\* model and without changing either table.
C5_UnknownTokenRejected ==
  [][ /\ \A w \in Workers :
           (pc[w] = "idle" /\ pc'[w] \in {"du_user", "cm_insert"}) =>
              TokenHeld(users, arg'[w])
      /\ \A op \in {"delete_user", "create_message", "get_messages", "delete_messages"} :
           (Answered(op) /\ ~TokenHeld(users, response'.arg)) =>
              /\ response'.status = 400
              /\ UNCHANGED store
              /\ UNCHANGED db_message
    ]_vars

C5_Witness ==
  /\ response.op = "create_message"
  /\ response.status = 400
  /\ response.detail = "Invalid token"
  /\ users # {}
  /\ messages # {}

\* C10: get_messages with a token returns only rows of the user holding it;
\* delete_messages and delete_user with a token leave every other user row
\* and every row of messages that is not that user's as they were.
OthersKept(user) ==
  /\ \A u \in users : u # user => u \in users'
  /\ users' \subseteq users
  /\ \A m \in messages : m.user_id # user.id => m \in messages'
  /\ \A m \in messages' : m.user_id # NULL => m \in messages

C10_TokenIsolation ==
  [][ /\ (response'.op = "get_messages" /\ response'.status = 200) =>
           \A i \in 1..Len(response'.body) :
              response'.body[i].user_id = get_user_by_token(users, response'.arg).id
      /\ Answered("delete_messages") =>
           /\ OthersKept(get_user_by_token(users, response'.arg))
           /\ users' = users
      /\ \A w \in Workers :
           /\ (pc[w] = "idle" /\ pc'[w] = "du_user") =>
                 OthersKept(db_user'[w]) /\ users' = users
           /\ (pc[w] = "du_user" /\ pc'[w] = "idle") => OthersKept(db_user[w])
    ]_vars

C10_Witness ==
  /\ response.op = "delete_messages"
  /\ response.status = 200
  /\ Cardinality(messages) = 1
  /\ nextMsgId = 3
  /\ \E u \in users : u.token # response.arg /\ MessagesOf(messages, u.id) # {}
\* C7 (as the claim states it): every create_user that passed the pre-check
\* inserts its row when it commits, so both racing inserts take effect.
C7_BothInsertsTakeEffect ==
  [][ \A w \in Workers :
        (pc[w] = "cu_commit" /\ pc'[w] = "idle") =>
           Cardinality(users') = Cardinality(users) + 1
    ]_vars

\* C7 (amended): two create_user requests for one unused username can both
\* pass the pre-check, but the unique index on users.username rejects the
\* insert that commits second: no two user rows ever hold the same username.
C7_UsernamesUnique ==
  \A u1 \in users, u2 \in users : u1.username = u2.username => u1 = u2

C7_Witness ==
  /\ response.op = "create_user"
  /\ response.status = 500
  /\ response.detail = "IntegrityError"
  /\ Cardinality({u \in users : u.username = response.arg}) = 1

\* C6 (as the claim states it): a create_user that found its username unused
\* always succeeds with status 200.
C6_UnusedUsernameAlwaysSucceeds ==
  [][ \A w \in Workers :
        (pc[w] = "cu_commit" /\ pc'[w] = "idle") => response'.status = 200
    ]_vars

\* The tokens drawn by the create_user calls that committed or failed so far.
IssuedTokens == {generate_token(k) : k \in 1..(nextToken - 1)}

\* C6 (amended): a create_user that found its username unused succeeds unless
\* another create_user committed that username since the pre-check; when it
\* succeeds it adds exactly one user row, with that username and a non-empty
\* token that no earlier create_user drew, and a token never identifies two
\* users; when it fails (500) it adds nothing.
C6_CreateUserEffect ==
  [][ /\ \A w \in Workers :
           (pc[w] = "cu_commit" /\ pc'[w] = "idle") =>
              IF UsernameHeld(users, arg[w])
              THEN response'.status = 500 /\ UNCHANGED store
              ELSE /\ response'.status = 200
                   /\ Len(response'.body) = 1
                   /\ users' = users \cup {response'.body[1]}
                   /\ response'.body[1] \notin users
                   /\ response'.body[1].username = arg[w]
                   /\ response'.body[1].token # NoUser.token
                   /\ response'.body[1].token \notin IssuedTokens
                   /\ UNCHANGED messages
      /\ \A u1 \in users', u2 \in users' : u1.token = u2.token => u1 = u2
    ]_vars

C6_Witness ==
  /\ response.op = "create_user"
  /\ response.status = 200
  /\ Cardinality(users) = 2
  /\ response.body[1] \in users

\* C8: delete_user makes the removal of the user's messages and of the user
\* row visible in one commit: no state shows a delete_user that has removed
\* messages while the user row is still there.
C8_DeleteUserSingleCommit ==
  \A w \in Workers :
    ~ /\ pc[w] = "du_user"
      /\ chat_history[w] # {}
      /\ db_user[w] \in users
      /\ Ids(messages) \cap chat_history[w] = {}

\* C9: every message row references an existing user row.
C9_MessagesHaveOwner ==
  \A m \in messages : \E u \in users : u.id = m.user_id

\* The tokens that were issued and that no user row holds any more.
DeletedToken(U, token) == token \in IssuedTokens /\ ~TokenHeld(U, token)

\* C2: with requests served one at a time, a successful delete_user for a
\* token removes the user row the token identified and every message row that
\* referenced that user; from then on the token identifies no user, and
\* get_messages with it answers 400 "Invalid token".
C2_DeleteUserRemovesAll ==
  [][ /\ \A w \in Workers :
           (pc[w] = "du_user" /\ pc'[w] = "idle" /\ response'.status = 200) =>
              /\ db_user[w] \notin users'
              /\ ~TokenHeld(users', arg[w])
              /\ MessagesOf(messages', db_user[w].id) = {}
              /\ Ids(messages') \cap chat_history[w] = {}
      /\ \A token \in Tokens :
           DeletedToken(users, token) =>
              /\ ~TokenHeld(users', token)
              /\ (response'.op = "get_messages" /\ response'.arg = token) =>
                    response'.status = 400 /\ response'.detail = "Invalid token"
    ]_vars

C2_Witness ==
  /\ response.op = "get_messages"
  /\ response.status = 400
  /\ DeletedToken(users, response.arg)
  /\ nextMsgId > 1
  /\ messages = {}
  /\ nextUserId = 2

C4_ClearKeepsUser ==
  [][ /\ (Answered("delete_messages") /\ response'.status = 200) =>
           /\ users' = users
           /\ get_user_by_token(users', response'.arg) # NoUser
           /\ MessagesOf(messages', get_user_by_token(users, response'.arg).id) = {}
           /\ posted'[get_user_by_token(users, response'.arg).id] = <<>>
      /\ \A w \in Workers :
           (pc[w] = "cm_insert" /\ pc'[w] = "idle") =>
              /\ response'.status = 200
              /\ posted[db_user[w].id] = <<>> =>
                    MessagesOf(messages', db_user[w].id) = {response'.body[1]}
    ]_vars

C4_Witness ==
  /\ response.op = "create_message"
  /\ response.status = 200
  /\ nextUserId = 2
  /\ messages = {response.body[1]}
  /\ response.body[1].id = 2
====
